---------------------------- MODULE Spec2Model ----------------------------
(***************************************************************************)
(* A model of the network-metrics pipeline of upr-network-analysis          *)
(* (src/network_creation.py).                                               *)
(*                                                                          *)
(*  - Spec       : visualize_all_countries running create_network_          *)
(*                 visualization over the edgelist files of a folder: read, *)
(*                 build the graph row by row, pickle it, compute the       *)
(*                 metrics, write the JSON record, write the HTML.          *)
(*  - SpecEngine : calculate_network_metrics applied, as a pure function,   *)
(*                 to an arbitrary undirected graph.                        *)
(*                                                                          *)
(* Scores are exact rationals <<num, den>> (den > 0); the float NaN that    *)
(* nx.constraint gives an isolated node is <<0, 0>>.                        *)
(***************************************************************************)
EXTENDS Integers, Sequences, FiniteSets, TLC

VARIABLES
    files,                  \* os.listdir(edgelist_folder), with each file's content
    idx,                    \* position of visualize_all_countries' for loop
    pc,                     \* position inside the current call
    edgelist,               \* the DataFrame read by pd.read_csv (its rows)
    rowi,                   \* position of the iterrows loop of line 139
    G,                      \* the nx.Graph under construction / analysed
    metrics,                \* the value returned by calculate_network_metrics
    graph_objects,          \* folder graph_objects: country -> pickled graph
    network_metrics,        \* folder network_metrics: country -> JSON record
    network_visualizations, \* folder network_visualizations1: countries with an HTML
    results,                \* visualize_all_countries' results dict
    ret,                    \* what each create_network_visualization call did
    error,                  \* the exception that left visualize_all_countries, or "none"
    cache,                  \* the dashboard's st.cache_data store: call -> result
    response                \* what the last presentation-layer request answered

\* the state of the presentation layers
view == <<cache, response>>

vars == <<files, idx, pc, edgelist, rowi, G, metrics, graph_objects,
          network_metrics, network_visualizations, results, ret, error, cache, response>>

----------------------------------------------------------------------------
(* Bounds of the model                                                      *)

MaxNode == 2        \* organisation names in the exhaustively drawn edgelists
MaxWeight == 2      \* Weight values in the exhaustively drawn edgelists
MaxRows == 2        \* rows of an exhaustively drawn edgelist
MaxEngineNodes == 4 \* nodes of the graphs handed to the engine directly
EigRounds == 3      \* power-iteration rounds whose vector ranks the nodes
MaxFiles == 3       \* files of a batch drawn from the catalogue
MaxNameLen == 2     \* characters of a country name (presentation layers)

(* Program constants                                                        *)

TopK == 10          \* the [:10] slices of the ranking lists

----------------------------------------------------------------------------
(* Sequences and rationals                                                  *)

EmptyFn == [x \in {} |-> 0]

\* A Python dict or list is built once and then read: Dict and List give the
\* table of a function or sequence expression, every entry computed once.
Dict(f) == f @@ EmptyFn
List(s) == s \o <<>>

Range(s) == {s[i] : i \in DOMAIN s}

Reverse(s) == List([i \in 1..Len(s) |-> s[Len(s) + 1 - i]])

SeqOfSet(S) ==
    \* some enumeration of a finite set (used only where order is immaterial)
    LET RECURSIVE Enum(_)
        Enum(T) == IF T = {} THEN <<>>
                   ELSE LET x == CHOOSE y \in T : TRUE IN <<x>> \o Enum(T \ {x})
    IN Enum(S)

RECURSIVE SumSeq(_)
SumSeq(s) == IF s = <<>> THEN 0 ELSE Head(s) + SumSeq(Tail(s))

RECURSIVE GCD(_, _)
GCD(a, b) == IF b = 0 THEN a ELSE GCD(b, a % b)

Rat(n, d) == LET g == GCD(n, d) IN IF g = 0 THEN <<0, 1>> ELSE <<n \div g, d \div g>>

NaN == <<0, 0>>
IsNaN(a) == a[2] = 0
Zero == <<0, 1>>
One == <<1, 1>>

\* sums and comparisons go through the least common denominator, so that the
\* intermediate products stay small
RatAdd(a, b) ==
    LET g == GCD(a[2], b[2])
    IN IF IsNaN(a) \/ IsNaN(b) THEN NaN
       ELSE Rat(a[1] * (b[2] \div g) + b[1] * (a[2] \div g), (a[2] \div g) * b[2])
RatMul(a, b) == Rat(a[1] * b[1], a[2] * b[2])

\* Python's float comparison: every comparison with NaN is False
RatLt(a, b) ==
    /\ ~IsNaN(a) /\ ~IsNaN(b)
    /\ LET g == GCD(a[2], b[2]) IN a[1] * (b[2] \div g) < b[1] * (a[2] \div g)
RatLe(a, b) ==
    /\ ~IsNaN(a) /\ ~IsNaN(b)
    /\ LET g == GCD(a[2], b[2]) IN a[1] * (b[2] \div g) <= b[1] * (a[2] \div g)

RECURSIVE RatSum(_)
RatSum(s) == IF s = <<>> THEN Zero ELSE RatAdd(Head(s), RatSum(Tail(s)))

\* the sum of f over the set S (exact, so the order of the terms is immaterial)
RECURSIVE RatSetSum(_, _)
RatSetSum(f, S) ==
    IF S = {} THEN Zero
    ELSE LET x == CHOOSE y \in S : TRUE IN RatAdd(f[x], RatSetSum(f, S \ {x}))

----------------------------------------------------------------------------
(* nx.Graph: the node dict (insertion-ordered) and the adjacency dict of    *)
(* dicts; adj[u][v] and adj[v][u] hold the same attribute dict {weight}.    *)

EmptyGraph == [nodes |-> <<>>, adj |-> EmptyFn]

NodeSet(g) == Range(g.nodes)

Nbrs(g, v) == DOMAIN g.adj[v]

\* Graph.add_node part of add_edge: a new node goes last, with no neighbours
AddNode(g, u) ==
    IF u \in NodeSet(g) THEN g
    ELSE [nodes |-> Append(g.nodes, u), adj |-> g.adj @@ (u :> EmptyFn)]

SetAdj(adj, u, v, w) ==
    [adj EXCEPT ![u] = [x \in DOMAIN adj[u] \cup {v} |->
                            IF x = v THEN w ELSE adj[u][x]]]

\* (mutant) add_edge that stores the edge under its source only
add_edge_oneway(g, u, v, w) ==
    LET g2 == AddNode(AddNode(g, u), v)
    IN [nodes |-> g2.nodes, adj |-> SetAdj(g2.adj, u, v, w)]

\* (mutant) add_edge that keeps the attributes of an edge already present
add_edge_keepfirst(g, u, v, w) ==
    LET g2 == AddNode(AddNode(g, u), v)
    IN IF v \in DOMAIN g2.adj[u] THEN g2
       ELSE [nodes |-> g2.nodes, adj |-> SetAdj(SetAdj(g2.adj, u, v, w), v, u, w)]

\* Graph.add_edge(u, v, weight=w): both directions get the updated attribute
add_edge(g, u, v, w) ==
    LET g2 == AddNode(AddNode(g, u), v)
    IN [nodes |-> g2.nodes, adj |-> SetAdj(SetAdj(g2.adj, u, v, w), v, u, w)]

\* G.degree(): a self-loop counts twice
Degree(g, v) == Cardinality(Nbrs(g, v)) + (IF v \in Nbrs(g, v) THEN 1 ELSE 0)

number_of_nodes(g) == Len(g.nodes)

\* G.number_of_edges() = G.size(): half the degree sum
number_of_edges(g) ==
    SumSeq([i \in 1..Len(g.nodes) |-> Degree(g, g.nodes[i])]) \div 2

\* G.subgraph(nbunch): the induced subgraph, nodes in G's order
RECURSIVE FilterSeq(_, _)
FilterSeq(s, S) ==
    IF s = <<>> THEN <<>>
    ELSE (IF Head(s) \in S THEN <<Head(s)>> ELSE <<>>) \o FilterSeq(Tail(s), S)

subgraph(g, S) ==
    [nodes |-> FilterSeq(g.nodes, S),
     adj |-> [u \in NodeSet(g) \cap S |->
                 [v \in Nbrs(g, u) \cap S |-> g.adj[u][v]]]]

----------------------------------------------------------------------------
(* Shortest paths (unweighted breadth-first search)                         *)

\* nx.single_source_shortest_path_length: node -> hop count, reachable nodes only
RECURSIVE BFS(_, _, _, _)
BFS(g, frontier, d, acc) ==
    IF frontier = {} THEN acc
    ELSE LET next == (UNION {Nbrs(g, v) : v \in frontier}) \ DOMAIN acc
         IN BFS(g, next, d + 1, acc @@ [v \in next |-> d + 1])

ShortestPathLength(g, s) == BFS(g, {s}, 0, [v \in {s} |-> 0])

\* all-pairs table: AllDist(g)[s] is ShortestPathLength(g, s)
AllDist(g) == Dict([s \in NodeSet(g) |-> ShortestPathLength(g, s)])

\* nx.connected_components: one set per component, in the order in which the
\* node iteration first meets each component
RECURSIVE Components(_, _, _)
Components(D, order, seen) ==
    IF order = <<>> THEN <<>>
    ELSE IF Head(order) \in seen THEN Components(D, Tail(order), seen)
    ELSE LET c == DOMAIN D[Head(order)]
         IN <<c>> \o Components(D, Tail(order), seen \cup c)

connected_components(g) == Components(AllDist(g), g.nodes, {})

\* nx.is_connected (defined for a non-null graph)
is_connected(g) ==
    Cardinality(DOMAIN ShortestPathLength(g, g.nodes[1])) = Len(g.nodes)

\* max(components, key=len): the first component of maximal size
RECURSIVE MaxByLen(_, _)
MaxByLen(cs, best) ==
    IF cs = <<>> THEN best
    ELSE MaxByLen(Tail(cs),
                  IF Cardinality(Head(cs)) > Cardinality(best) THEN Head(cs) ELSE best)

\* (mutant) the last component of maximal size
RECURSIVE MaxByLenLast(_, _)
MaxByLenLast(cs, best) ==
    IF cs = <<>> THEN best
    ELSE MaxByLenLast(Tail(cs),
                      IF Cardinality(Head(cs)) >= Cardinality(best) THEN Head(cs) ELSE best)

LargestComponent_last(cs) == MaxByLenLast(Tail(cs), Head(cs))

LargestComponent(cs) == MaxByLen(Tail(cs), Head(cs))

SetMax(S) == CHOOSE x \in S : \A y \in S : y <= x
SetMin(S) == CHOOSE x \in S : \A y \in S : x <= y

RECURSIVE SetSum(_, _)
SetSum(f, S) ==
    IF S = {} THEN 0
    ELSE LET x == CHOOSE y \in S : TRUE IN f[x] + SetSum(f, S \ {x})

\* nx.diameter and nx.average_shortest_path_length raise NetworkXError when
\* some node does not reach every node
DisconnectedError == "NetworkXError"

PathMetricsRaise(g) ==
    LET D == AllDist(g)
    IN \E s \in NodeSet(g) : DOMAIN D[s] # NodeSet(g)

\* nx.diameter of a connected graph: the largest eccentricity
diameter(g) ==
    LET D == AllDist(g)
    IN SetMax({D[s][t] : s, t \in NodeSet(g)})

\* (mutant) the distances averaged over n * n pairs
average_shortest_path_length_nn(g) ==
    LET n == Len(g.nodes)
        D == AllDist(g)
    IN IF n = 1 THEN Zero
       ELSE Rat(SumSeq([i \in 1..n |-> SetSum(D[g.nodes[i]], NodeSet(g))]), n * n)

\* nx.average_shortest_path_length of a connected graph: 0 for one node, else
\* the sum of all distances over n (n - 1)
average_shortest_path_length(g) ==
    LET n == Len(g.nodes)
        D == AllDist(g)
    IN IF n = 1 THEN Zero
       ELSE Rat(SumSeq([i \in 1..n |-> SetSum(D[g.nodes[i]], NodeSet(g))]),
                n * (n - 1))
----------------------------------------------------------------------------
(* The library's per-node scores.  Each is the sequence of (node, score)    *)
(* pairs of dict.items(): one pair per node, in the graph's node order.     *)
(* Floating-point rounding is not modelled: scores are exact.               *)

Items(g, f) == List([i \in 1..Len(g.nodes) |-> <<g.nodes[i], f[g.nodes[i]]>>])

\* nx.degree_centrality: 1 for every node of a graph of at most one node,
\* degree / (n - 1) otherwise
degree_centrality(g) ==
    LET n == Len(g.nodes)
    IN Items(g, [v \in NodeSet(g) |->
                    IF n <= 1 THEN One ELSE Rat(Degree(g, v), n - 1)])

\* number of shortest s-t paths for every t reachable from s, level by level
RECURSIVE SigmaLevels(_, _, _, _)
SigmaLevels(g, Ds, d, acc) ==
    LET L == {v \in DOMAIN Ds : Ds[v] = d}
    IN IF L = {} THEN acc
       ELSE SigmaLevels(g, Ds, d + 1,
                acc @@ [v \in L |->
                    SetSum(acc, {u \in Nbrs(g, v) : u \in DOMAIN acc /\ Ds[u] = d - 1})])

Sigma(g, Ds, s) == SigmaLevels(g, Ds, 1, [v \in {s} |-> 1])

\* nx.betweenness_centrality (normalized, no endpoints, unweighted): the sum
\* over ordered pairs (s, t) of the share of shortest s-t paths through v,
\* scaled by 1 / ((n-1)(n-2)) when n > 2
betweenness_centrality(g) ==
    LET n == Len(g.nodes)
        V == NodeSet(g)
        D == AllDist(g)
        S == Dict([s \in V |-> Sigma(g, D[s], s)])
        Through(v, s, t) ==
            IF v \in DOMAIN D[s] /\ t \in DOMAIN D[s] /\ D[s][v] + D[v][t] = D[s][t]
            THEN Rat(S[s][v] * S[v][t], S[s][t]) ELSE Zero
        From(v, s) == RatSetSum([t \in V \ {v, s} |-> Through(v, s, t)], V \ {v, s})
        Raw(v) == RatSetSum([s \in V \ {v} |-> From(v, s)], V \ {v})
    IN Items(g, [v \in V |->
                    IF n <= 2 THEN Raw(v)
                    ELSE RatMul(Raw(v), <<1, (n - 1) * (n - 2)>>)])

\* nx.closeness_centrality (wf_improved): with r the number of other nodes
\* reached and totsp the sum of their distances, (r / totsp) * (r / (n - 1)),
\* and 0 when totsp = 0 or n = 1
closeness_centrality(g) ==
    LET n == Len(g.nodes)
        D == AllDist(g)
        CC(v) == LET r == Cardinality(DOMAIN D[v]) - 1
                     totsp == SetSum(D[v], DOMAIN D[v])
                 IN IF totsp > 0 /\ n > 1 THEN Rat(r * r, totsp * (n - 1)) ELSE Zero
    IN Items(g, [v \in NodeSet(g) |-> CC(v)])

\* One round of eigenvector_centrality's power iteration with A + I:
\* x = xlast.copy(); for n in x: for nbr in G[n]: x[nbr] += xlast[n]
PowerRound(g, x) ==
    Dict([v \in NodeSet(g) |-> x[v] + SetSum(x, Nbrs(g, v))])

RECURSIVE PowerIterate(_, _, _)
PowerIterate(g, x, k) == IF k = 0 THEN x ELSE PowerIterate(g, PowerRound(g, x), k - 1)

ConvergenceError == "PowerIterationFailedConvergence"

\* nx.eigenvector_centrality(G, max_iter=1000).  Whether the iteration meets
\* its tolerance within the cap is a property of the graph that the bounded
\* graphs of this model cannot exhibit, so it is given (converges); when it
\* does, the nodes are scored by the iterate after EigRounds rounds, which
\* the library only rescales by a positive norm.
eigenvector_centrality(g) ==
    LET x == PowerIterate(g, [u \in NodeSet(g) |-> 1], EigRounds)
    IN Items(g, [v \in NodeSet(g) |-> <<x[v], 1>>])

\* nx.constraint (Burt), unweighted.  The normalized mutual weight of (u, v)
\* is 1/|N(u)| for a neighbour v of u and 0 otherwise; the local constraint
\* is (p_uv + sum_w p_uw p_wv)^2; an isolated node gets NaN.
NormMutualWeight(g, u, v) ==
    IF v \in Nbrs(g, u) THEN <<1, Cardinality(Nbrs(g, u))>> ELSE Zero

local_constraint(g, u, v) ==
    LET N == SeqOfSet(Nbrs(g, u))
        direct == NormMutualWeight(g, u, v)
        indirect == RatSum([i \in 1..Len(N) |->
                        RatMul(NormMutualWeight(g, u, N[i]),
                               NormMutualWeight(g, N[i], v))])
        s == RatAdd(direct, indirect)
    IN RatMul(s, s)

constraint(g) ==
    Items(g, [v \in NodeSet(g) |->
        IF Nbrs(g, v) = {} THEN NaN
        ELSE LET N == SeqOfSet(Nbrs(g, v))
             IN RatSum([i \in 1..Len(N) |-> local_constraint(g, v, N[i])])])

\* _triangles_and_degree_iter: for node v, with vs = N(v) - {v}, the pair
\* (len(vs), twice the number of triangles through v)
TriDeg(g, v) ==
    LET vs == Nbrs(g, v) \ {v}
        cnt == [w \in vs |-> Cardinality(vs \cap (Nbrs(g, w) \ {w}))]
    IN <<Cardinality(vs), SetSum(cnt, vs)>>

\* nx.average_clustering: mean over all nodes of t / (d (d - 1)), 0 when t = 0
average_clustering(g) ==
    LET n == Len(g.nodes)
        C(v) == LET td == TriDeg(g, v)
                IN IF td[2] = 0 THEN Zero ELSE Rat(td[2], td[1] * (td[1] - 1))
    IN RatMul(RatSum([i \in 1..n |-> C(g.nodes[i])]), <<1, n>>)

\* sum(nx.triangles(G).values())
TriangleSum(g) == SumSeq([i \in 1..Len(g.nodes) |-> TriDeg(g, g.nodes[i])[2] \div 2])

\* nx.transitivity: sum of t over sum of d (d - 1), 0 when there is no triangle
transitivity(g) ==
    LET n == Len(g.nodes)
        t == SumSeq([i \in 1..n |-> TriDeg(g, g.nodes[i])[2]])
        c == SumSeq([i \in 1..n |-> LET d == TriDeg(g, g.nodes[i])[1] IN d * (d - 1)])
    IN IF t = 0 THEN Zero ELSE Rat(t, c)

\* (mutant) density without the n <= 1 guard
density_noguard(g) ==
    LET n == number_of_nodes(g)
        m == number_of_edges(g)
    IN IF m = 0 THEN Zero ELSE <<2 * m, n * (n - 1)>>

\* nx.density: 0 when m = 0 or n <= 1, else 2m / (n (n - 1))
density(g) ==
    LET n == number_of_nodes(g)
        m == number_of_edges(g)
    IN IF m = 0 \/ n <= 1 THEN Zero ELSE Rat(2 * m, n * (n - 1))
----------------------------------------------------------------------------
(* Python's sorted(items, key=lambda x: x[1], reverse=...) for lists of      *)
(* fewer than 64 items (no merging): list.sort finds the leading run,        *)
(* reverses it when strictly descending, and inserts the remaining items by  *)
(* binary insertion.  Only "<" on the keys is used.  With reverse=True the   *)
(* list is reversed before and after, which keeps equal keys in their        *)
(* original order.                                                           *)

KeyLt(a, b) == RatLt(a[2], b[2])

\* count_run: the last index of the run that starts at index 1
RECURSIVE RunEnd(_, _, _)
RunEnd(a, k, desc) ==
    IF k < Len(a) /\ (KeyLt(a[k + 1], a[k]) = desc) THEN RunEnd(a, k + 1, desc) ELSE k

\* binarysort's search: the insertion point of pivot in the sorted a[l .. r-1]
RECURSIVE BinPos(_, _, _, _)
BinPos(a, pivot, l, r) ==
    IF l >= r THEN l
    ELSE LET p == l + ((r - l) \div 2)
         IN IF KeyLt(pivot, a[p]) THEN BinPos(a, pivot, l, p)
            ELSE BinPos(a, pivot, p + 1, r)

RECURSIVE BinarySort(_, _)
BinarySort(a, start) ==
    IF start > Len(a) THEN a
    ELSE LET pos == BinPos(a, a[start], 1, start)
         IN BinarySort(SubSeq(a, 1, pos - 1) \o <<a[start]>> \o
                       SubSeq(a, pos, start - 1) \o SubSeq(a, start + 1, Len(a)),
                       start + 1)

ListSort(a) ==
    IF Len(a) < 2 THEN a
    ELSE LET desc == KeyLt(a[2], a[1])
             run == RunEnd(a, 2, desc)
             a1 == IF desc THEN Reverse(SubSeq(a, 1, run)) \o SubSeq(a, run + 1, Len(a))
                   ELSE a
         IN BinarySort(a1, run + 1)

sorted(items, reverse) ==
    IF reverse THEN Reverse(ListSort(Reverse(items))) ELSE ListSort(items)

\* s[:k]
Slice(s, k) == SubSeq(s, 1, IF Len(s) < k THEN Len(s) ELSE k)

----------------------------------------------------------------------------
(* calculate_network_metrics(G): the report, a dict from field names to     *)
(* values, or the exception that eigenvector_centrality raised.             *)

\* (mutant) the median taken one position earlier in the descending sequence
degree_distribution_upper(g) ==
    LET n == Len(g.nodes)
        keyed == sorted([i \in 1..n |->
                    <<Degree(g, g.nodes[i]), <<Degree(g, g.nodes[i]), 1>>>>], TRUE)
        degree_sequence == [i \in 1..n |-> keyed[i][1]]
    IN [mean |-> Rat(SumSeq(degree_sequence), n),
        max |-> SetMax(Range(degree_sequence)),
        min |-> SetMin(Range(degree_sequence)),
        median |-> degree_sequence[((n - 1) \div 2) + 1]]

\* lines 61-67: the degree sequence sorted descending, and its statistics
degree_distribution(g) ==
    LET n == Len(g.nodes)
        keyed == sorted([i \in 1..n |->
                    <<Degree(g, g.nodes[i]), <<Degree(g, g.nodes[i]), 1>>>>], TRUE)
        degree_sequence == [i \in 1..n |-> keyed[i][1]]
    IN [mean |-> Rat(SumSeq(degree_sequence), n),
        max |-> SetMax(Range(degree_sequence)),
        min |-> SetMin(Range(degree_sequence)),
        median |-> degree_sequence[(n \div 2) + 1]]

\* lines 73-84: the graph whose diameter and average path length are taken
PathGraph(g) ==
    IF is_connected(g) THEN g
    ELSE subgraph(g, LargestComponent(connected_components(g)))

\* lines 73-84: the connectivity fields
ComponentFields(g) ==
    IF is_connected(g)
    THEN [num_components |-> 1,
          diameter |-> diameter(g),
          avg_path_length |-> average_shortest_path_length(g)]
    ELSE LET components == connected_components(g)
             largest_cc == LargestComponent(components)
             sub == subgraph(g, largest_cc)
         IN [num_components |-> Len(components),
             largest_component_size |-> Cardinality(largest_cc),
             diameter |-> diameter(sub),
             avg_path_length |-> average_shortest_path_length(sub)]

\* lines 23-25
BasicFields(g) ==
    [num_nodes |-> number_of_nodes(g),
     num_edges |-> number_of_edges(g),
     density |-> density(g)]

\* lines 36-58, 60-70, 88-98 (what follows a successful line 33)
NodeFields(g, eig) ==
    [top_degree_centrality |-> Slice(sorted(degree_centrality(g), TRUE), TopK),
     top_betweenness_centrality |-> Slice(sorted(betweenness_centrality(g), TRUE), TopK),
     top_closeness_centrality |-> Slice(sorted(closeness_centrality(g), TRUE), TopK),
     top_eigenvector_centrality |-> Slice(sorted(eig, TRUE), TopK),
     degree_distribution |-> degree_distribution(g),
     avg_clustering_coefficient |-> average_clustering(g),
     num_triangles |-> TriangleSum(g) \div 3,
     transitivity |-> transitivity(g),
     top_brokers |-> Slice(sorted(constraint(g), FALSE), TopK)]

\* (mutant) the guard of line 28 off by one
HasNodes_offbyone(g) == number_of_nodes(g) > 1

\* whether the body of the "if G.number_of_nodes() > 0" of line 28 runs
HasNodes(g) == number_of_nodes(g) > 0

Returned(report) == [raised |-> "none", report |-> report]
Raised(exc) == [raised |-> exc, report |-> EmptyFn]

\* (mutant) a failed convergence is swallowed and the fields computed so far
\* are returned
calculate_swallowing(g, converges) ==
    IF HasNodes(g) /\ converges
    THEN Returned(BasicFields(g) @@ NodeFields(g, eigenvector_centrality(g))
                  @@ ComponentFields(g))
    ELSE Returned(BasicFields(g))

\* The call returns its report or leaves by the exception of line 33 (the
\* power iteration did not converge) or of lines 75-84 (a path metric asked
\* of a disconnected graph).
calculate_network_metrics(g, converges) ==
    IF HasNodes(g)
    THEN IF ~converges THEN Raised(ConvergenceError)
         ELSE IF PathMetricsRaise(PathGraph(g)) THEN Raised(DisconnectedError)
         ELSE Returned(BasicFields(g) @@ NodeFields(g, eigenvector_centrality(g))
                       @@ ComponentFields(g))
    ELSE Returned(BasicFields(g))
----------------------------------------------------------------------------
(* The Report Writer (lines 171-182): the serialized copy of the report     *)

Digit == <<"0", "1", "2", "3", "4", "5", "6", "7", "8", "9">>

\* str(k) of a node name; the names of this model are non-negative integers,
\* whose text is their decimal digits
RECURSIVE str(_)
str(k) == IF k < 10 THEN Digit[k + 1] ELSE str(k \div 10) \o Digit[(k % 10) + 1]

\* float(v): a value of type float with the numeric value of the score v
float(v) == <<"float", v[1], v[2]>>

RankingKeys ==
    {"top_degree_centrality", "top_betweenness_centrality", "top_closeness_centrality",
     "top_eigenvector_centrality", "top_brokers"}

\* The names of the function body and the dict objects they refer to
Store(report) == [names |-> [metrics |-> 1], objects |-> <<report>>]

\* (mutant) metrics_json = metrics: a second name for the same dict
dict_alias(heap) ==
    [names |-> heap.names @@ [metrics_json |-> heap.names.metrics],
     objects |-> heap.objects]

\* line 173: metrics_json = metrics.copy(), a new dict with the same items
dict_copy(heap) ==
    [names |-> heap.names @@ [metrics_json |-> Len(heap.objects) + 1],
     objects |-> Append(heap.objects, heap.objects[heap.names.metrics])]

\* line 177: [(str(k), float(v)) for k, v in metrics_json[key]]
ConvertPairs(list) == [i \in 1..Len(list) |-> <<str(list[i][1]), float(list[i][2])>>]

\* lines 174-177: every ranking key present in the dict that metrics_json
\* names is bound to its converted list
ConvertRankings(heap) ==
    [heap EXCEPT !.objects[heap.names.metrics_json] =
        [k \in DOMAIN @ |-> IF k \in RankingKeys THEN ConvertPairs(@[k]) ELSE @[k]]]

\* lines 173-181: what metrics and metrics_json hold when json.dump runs
SerializeMetrics(report) ==
    LET heap == ConvertRankings(dict_copy(Store(report)))
    IN [metrics |-> heap.objects[heap.names.metrics],
        metrics_json |-> heap.objects[heap.names.metrics_json]]

----------------------------------------------------------------------------
(* The inputs: edgelist files and graphs                                    *)

\* A row of an edgelist: <<Source, Target, Weight>>
Rows == (1..MaxNode) \X (1..MaxNode) \X (1..MaxWeight)

RowSeqs == UNION {[1..n -> Rows] : n \in 1..MaxRows}

\* What pd.read_csv meets.  kind:
\*   "missing", "unreadable" : read_csv raises (no file, no permission, no
\*                             parsable content)
\*   "empty"                 : a header and no row
\*   "nocolumns"             : rows, but no Source / Target / Weight column
\*   "ok"                    : rows under Source, Target, Weight
\* converges: whether eigenvector_centrality meets its tolerance within
\* max_iter=1000 on the graph of this file.
File(kind, rows, converges) == [kind |-> kind, rows |-> rows, converges |-> converges]

BadKinds == {"missing", "unreadable", "empty", "nocolumns"}

Catalogue ==
    {File(k, <<>>, TRUE) : k \in {"missing", "unreadable", "empty"}}
    \cup {File("nocolumns", <<<<1, 2, 1>>>>, TRUE)}
    \cup {File("ok", <<<<1, 2, 1>>, <<2, 3, 2>>>>, c) : c \in BOOLEAN}

\* longer edgelists: a triangle, and a pair given twice (in both directions,
\* with different weights) around a self-loop
Samples ==
    {<<<<1, 2, 1>>, <<2, 3, 2>>, <<3, 1, 1>>>>,
     <<<<1, 2, 1>>, <<2, 2, 2>>, <<2, 1, 2>>>>}

\* a folder of one file with any rows, or a batch of catalogue files; the
\* country name of a file is its position in the listing
Folders ==
    {<<File("ok", r, c)>> : r \in RowSeqs \cup Samples, c \in BOOLEAN}
    \cup [1..MaxFiles -> Catalogue]

\* the graph on nodes 1..n (inserted in that order) with the edges E, a set of
\* pairs <<u, v>> with u <= v, all of weight 1
GraphOf(n, E) ==
    [nodes |-> [i \in 1..n |-> i],
     adj |-> [u \in 1..n |->
                [v \in {x \in 1..n : <<u, x>> \in E \/ <<x, u>> \in E} |-> 1]]]

PairsUpTo(n) == {p \in (1..n) \X (1..n) : p[1] <= p[2]}

\* graphs of more than TopK nodes, and two components of equal size
Star == GraphOf(12, {<<1, v>> : v \in 2..12})
Path == GraphOf(11, {<<v, v + 1>> : v \in 1..10})
Comb == GraphOf(12, {<<v, v + 1>> : v \in 1..5} \cup {<<v, v + 6>> : v \in 1..5}
                    \cup {<<3, 12>>})
TwoTriples == GraphOf(6, {<<1, 2>>, <<2, 3>>, <<1, 3>>, <<4, 5>>, <<5, 6>>})
TwoTriplesRev == GraphOf(6, {<<1, 2>>, <<2, 3>>, <<4, 5>>, <<5, 6>>, <<4, 6>>})

\* three isolated nodes (1, 2, 4) among nodes of degree 1 (3, 8, 9), 2 (5, 7)
\* and 3 (6)
Scattered == GraphOf(9, {<<3, 5>>, <<5, 6>>, <<6, 7>>, <<6, 8>>, <<7, 9>>})

EngineGraphs ==
    {GraphOf(n, E) : n \in {MaxEngineNodes}, E \in SUBSET PairsUpTo(MaxEngineNodes)}
    \cup UNION {{GraphOf(n, E) : E \in SUBSET PairsUpTo(n)} : n \in 0..(MaxEngineNodes - 1)}
    \cup {Star, Path, Comb, TwoTriples, TwoTriplesRev, Scattered}

----------------------------------------------------------------------------
(* The state machine                                                        *)

NoMetrics == [raised |-> "unset", report |-> EmptyFn]

NoFrame == [columns |-> FALSE, rows |-> <<>>]

NoResponse == [layer |-> "none"]

Country == idx      \* country_name of the file being processed

\* Spec: the folder before visualize_all_countries runs, output folders empty
Init ==
    /\ files \in Folders
    /\ idx = 1
    /\ pc = "loop"
    /\ edgelist = NoFrame
    /\ rowi = 0
    /\ G = EmptyGraph
    /\ metrics = NoMetrics
    /\ graph_objects = EmptyFn
    /\ network_metrics = EmptyFn
    /\ network_visualizations = {}
    /\ results = EmptyFn
    /\ ret = <<>>
    /\ error = "none"
    /\ cache = EmptyFn
    /\ response = NoResponse

\* (mutant) the exception is swallowed and the run goes on to save the HTML
Propagate_resume(exc) ==
    /\ pc' = "html"
    /\ error' = exc
    /\ ret' = ret

\* an exception leaves create_network_visualization and, uncaught by the
\* loop of visualize_all_countries, the batch
Propagate(exc) ==
    /\ pc' = "raised"
    /\ error' = exc
    /\ ret' = Append(ret, "raised")

\* create_network_visualization returns None; the loop goes on (line 306)
ReturnNone ==
    /\ pc' = "loop"
    /\ idx' = idx + 1
    /\ ret' = Append(ret, "None")

\* lines 293-304 and 119-136: the call, pd.read_csv, the empty check, nx.Graph()
ReadEdgelist ==
    /\ pc = "loop"
    /\ UNCHANGED view
    /\ idx <= Len(files)
    /\ metrics' = NoMetrics
    /\ IF files[idx].kind \in {"missing", "unreadable", "empty"}
       THEN /\ ReturnNone
            /\ UNCHANGED <<edgelist, rowi, G, error>>
       ELSE /\ edgelist' = [columns |-> files[idx].kind = "ok", rows |-> files[idx].rows]
            /\ G' = EmptyGraph
            /\ rowi' = 1
            /\ pc' = "build"
            /\ UNCHANGED <<idx, ret, error>>
    /\ UNCHANGED <<files, graph_objects, network_metrics, network_visualizations, results>>

\* lines 139-140: one round of the iterrows loop; row['Source'] raises
\* KeyError when the frame has no such column
AddEdgeRow ==
    /\ pc = "build"
    /\ UNCHANGED view
    /\ rowi <= Len(edgelist.rows)
    /\ IF edgelist.columns
       THEN /\ G' = add_edge(G, edgelist.rows[rowi][1], edgelist.rows[rowi][2],
                             edgelist.rows[rowi][3])
            /\ rowi' = rowi + 1
            /\ UNCHANGED <<pc, ret, error>>
       ELSE /\ Propagate("KeyError")
            /\ UNCHANGED <<G, rowi>>
    /\ UNCHANGED <<files, idx, edgelist, metrics, graph_objects, network_metrics,
                   network_visualizations, results>>

\* lines 142-146: pickle.dump(G) to graph_objects/<country>_graph.pkl
SaveGraph ==
    /\ pc = "build"
    /\ UNCHANGED view
    /\ rowi > Len(edgelist.rows)
    /\ graph_objects' = [c \in DOMAIN graph_objects \cup {Country} |->
                            IF c = Country THEN G ELSE graph_objects[c]]
    /\ pc' = "metrics"
    /\ UNCHANGED <<files, idx, edgelist, rowi, G, metrics, network_metrics,
                   network_visualizations, results, ret, error>>

\* line 150: metrics = calculate_network_metrics(G); nothing catches what it raises
ComputeMetrics ==
    /\ pc = "metrics"
    /\ UNCHANGED view
    /\ LET r == calculate_network_metrics(G, files[idx].converges)
       IN IF r.raised = "none"
          THEN /\ metrics' = r
               /\ pc' = "json"
               /\ UNCHANGED <<ret, error>>
          ELSE /\ Propagate(r.raised)
               /\ UNCHANGED metrics
    /\ UNCHANGED <<files, idx, edgelist, rowi, G, graph_objects, network_metrics,
                   network_visualizations, results>>

\* lines 171-182: json.dump to network_metrics/<country>_metrics.json
SaveMetrics ==
    /\ pc = "json"
    /\ UNCHANGED view
    /\ LET written == SerializeMetrics(metrics.report)
       IN /\ network_metrics' = [c \in DOMAIN network_metrics \cup {Country} |->
                                    IF c = Country THEN written.metrics_json
                                    ELSE network_metrics[c]]
          /\ metrics' = [metrics EXCEPT !.report = written.metrics]
    /\ pc' = "html"
    /\ UNCHANGED <<files, idx, edgelist, rowi, G, graph_objects,
                   network_visualizations, results, ret, error>>

\* lines 184-259 and 306-307: the HTML is saved, (G, metrics) is returned and
\* stored in results
SaveVisualization ==
    /\ pc = "html"
    /\ UNCHANGED view
    /\ network_visualizations' = network_visualizations \cup {Country}
    /\ results' = [c \in DOMAIN results \cup {Country} |->
                      IF c = Country THEN <<G, metrics.report>> ELSE results[c]]
    /\ ret' = Append(ret, "returned")
    /\ idx' = idx + 1
    /\ pc' = "loop"
    /\ UNCHANGED <<files, edgelist, rowi, G, metrics, graph_objects, network_metrics, error>>

\* lines 309-314: the loop is over, results is returned
Finish ==
    /\ pc = "loop"
    /\ UNCHANGED view
    /\ idx > Len(files)
    /\ pc' = "done"
    /\ UNCHANGED <<files, idx, edgelist, rowi, G, metrics, graph_objects, network_metrics,
                   network_visualizations, results, ret, error>>

Next ==
    \/ ReadEdgelist
    \/ AddEdgeRow
    \/ SaveGraph
    \/ ComputeMetrics
    \/ SaveMetrics
    \/ SaveVisualization
    \/ Finish

Spec == Init /\ [][Next]_vars

\* SpecEngine: calculate_network_metrics called on a graph
InitEngine ==
    /\ G \in EngineGraphs
    /\ files \in {<<File("ok", <<>>, c)>> : c \in BOOLEAN}
    /\ idx = 1
    /\ pc = "call"
    /\ edgelist = NoFrame
    /\ rowi = 0
    /\ metrics = NoMetrics
    /\ graph_objects = EmptyFn
    /\ network_metrics = EmptyFn
    /\ network_visualizations = {}
    /\ results = EmptyFn
    /\ ret = <<>>
    /\ error = "none"
    /\ cache = EmptyFn
    /\ response = NoResponse

\* lines 10-100
CallEngine ==
    /\ pc = "call"
    /\ UNCHANGED view
    /\ metrics' = calculate_network_metrics(G, files[idx].converges)
    /\ pc' = "returned"
    /\ UNCHANGED <<files, idx, edgelist, rowi, G, graph_objects, network_metrics,
                   network_visualizations, results, ret, error>>

NextEngine == CallEngine

SpecEngine == InitEngine /\ [][NextEngine]_vars
----------------------------------------------------------------------------
(* The presentation layers: the Flask webapp (src/network_webapp.py) and    *)
(* the Streamlit dashboard (src/streamlit_app.py).  Here the three folder   *)
(* variables are the folders the layers read (graph_objects,                *)
(* network_metrics, network_visualizations), keyed by the <name> of         *)
(* <name>_graph.pkl, <name>_metrics.json and <name>_network.html.           *)
(*                                                                          *)
(* A name is a sequence of characters; "K" is a letter, and "graph" stands  *)
(* for the five letters g, r, a, p, h, which occur in the names of this     *)
(* model only as that block.                                                *)

Alphabet == {"K", " ", "_", "graph"}

Names == UNION {[1..n -> Alphabet] : n \in 1..MaxNameLen}

\* str.replace(old, new): every occurrence of old, left to right, not overlapping
RECURSIVE replace(_, _, _)
replace(s, old, new) ==
    IF Len(s) < Len(old) THEN s
    ELSE IF SubSeq(s, 1, Len(old)) = old
         THEN new \o replace(SubSeq(s, Len(old) + 1, Len(s)), old, new)
         ELSE <<Head(s)>> \o replace(Tail(s), old, new)

\* Python values: None, and how a call ends
None == [None |-> TRUE]
Ok(value) == [raised |-> "none", value |-> value]
Exc(exc) == [raised |-> exc, value |-> None]

\* "if x:" for x a dict, a text or None
Truthy(x) == x # None /\ DOMAIN x # {}

\* open(path).read() / json.load / pickle.load of the file <name> of a folder
\* given as a function; a missing file raises FileNotFoundError
open(folder, name) ==
    IF name \in DOMAIN folder THEN Ok(folder[name]) ELSE Exc("FileNotFoundError")

\* the content of network_visualizations/<name>_network.html
Html == [c \in network_visualizations |-> [html |-> c]]

\* what a request answered.  status is the HTTP status of the webapp (0 for
\* the dashboard), raised the exception that left the handler unhandled,
\* notes the messages shown, metrics and html what is shown of the two files
Answer(layer, route, country, status, raised, notes, m, h) ==
    [layer |-> layer, route |-> route, country |-> country, status |-> status,
     raised |-> raised, notes |-> notes, metrics |-> m, html |-> h]

(* network_webapp.py *)

\* lines 20-28: the names of the *_network.html files (none when the folder
\* is missing); the sorted list is used for membership and listing only
get_available_countries == network_visualizations

\* (mutant) load_metrics without the os.path.exists test
webapp_load_metrics_unguarded(country_name) == open(network_metrics, country_name)

\* lines 31-39
webapp_load_metrics(country_name) ==
    IF country_name \in DOMAIN network_metrics
    THEN open(network_metrics, country_name)
    ELSE Ok(None)

\* templates/network.html rendered with country, metrics (None when there is
\* no record) and all_countries: the page, with the metrics panel when there
\* are metrics
render_network_template(country_name, m) ==
    Answer("webapp", "view_network", country_name, 200, "none",
           IF m = None THEN {"no metrics"} ELSE {}, m, [html |-> country_name])

\* lines 49-62; an exception that leaves a view is answered with status 500
view_network(country_name) ==
    IF country_name \notin get_available_countries
    THEN Answer("webapp", "view_network", country_name, 404, "none",
                {"Country not found"}, None, None)
    ELSE LET m == webapp_load_metrics(country_name)
         IN IF m.raised # "none"
            THEN Answer("webapp", "view_network", country_name, 500, m.raised, {}, None, None)
            ELSE render_network_template(country_name, m.value)

\* lines 71-79
api_metrics(country_name) ==
    LET m == webapp_load_metrics(country_name)
    IN IF m.raised # "none"
       THEN Answer("webapp", "api_metrics", country_name, 500, m.raised, {}, None, None)
       ELSE IF Truthy(m.value)
       THEN Answer("webapp", "api_metrics", country_name, 200, "none", {}, m.value, None)
       ELSE Answer("webapp", "api_metrics", country_name, 404, "none",
                   {"Metrics not found"}, None, None)

\* lines 82-85: send_from_directory answers a missing file with 404 (NotFound)
serve_visualization(country_name) ==
    LET f == open(Html, country_name)
    IN IF f.raised # "none"
       THEN Answer("webapp", "serve_visualization", country_name, 404, "none",
                   {"Not Found"}, None, None)
       ELSE Answer("webapp", "serve_visualization", country_name, 200, "none", {},
                   None, f.value)

(* streamlit_app.py *)

\* @st.cache_data: a call whose function and argument are in the store gets
\* the stored value; otherwise the body runs and, unless it raises, its value
\* is stored
Cached(store, key, call) ==
    IF key \in DOMAIN store THEN [result |-> Ok(store[key]), cache |-> store]
    ELSE IF call.raised = "none"
    THEN [result |-> call, cache |-> store @@ (key :> call.value)]
    ELSE [result |-> call, cache |-> store]

\* file.stem of graph_objects/<name>_graph.pkl
stem(name) == name \o <<"_", "graph">>

\* line 198: file.stem.replace("_graph", "").replace("_", " ")
display_name(name) == replace(replace(stem(name), <<"_", "graph">>, <<>>), <<"_">>, <<" ">>)

\* lines 189-202: one display name per .pkl file (none when the folder is
\* missing); the sorted list is the options of the select box
load_countries == Ok({display_name(n) : n \in DOMAIN graph_objects})

\* lines 208, 223, 238: country.replace(" ", "_")
country_code(country) == replace(country, <<" ">>, <<"_">>)

\* lines 206-217
load_network(country) ==
    IF country_code(country) \notin DOMAIN graph_objects THEN Ok(None)
    ELSE open(graph_objects, country_code(country))

\* lines 221-232
load_metrics(country) ==
    IF country_code(country) \notin DOMAIN network_metrics THEN Ok(None)
    ELSE open(network_metrics, country_code(country))

\* lines 236-247
load_network_html(country) ==
    IF country_code(country) \notin DOMAIN Html THEN Ok(None)
    ELSE open(Html, country_code(country))

\* lines 411-456: the keys main reads from the metrics record
KeysRead ==
    {"num_nodes", "num_edges", "density", "transitivity", "num_components",
     "num_triangles", "top_degree_centrality", "top_betweenness_centrality",
     "top_brokers", "degree_distribution"}

Dashboard(country, raised, notes, m, h) ==
    Answer("dashboard", "main", country, 0, raised, notes, m, h)

\* lines 373-459: main once a country is selected; store is the cache after
\* load_countries
main_selected(selected, store) ==
    LET h == Cached(store, <<"load_network_html", selected>>, load_network_html(selected))
        m == Cached(h.cache, <<"load_metrics", selected>>, load_metrics(selected))
    IN IF h.result.raised # "none"
       THEN [response |-> Dashboard(selected, h.result.raised, {}, None, None),
             cache |-> h.cache]
       ELSE IF m.result.raised # "none"
       THEN [response |-> Dashboard(selected, m.result.raised, {}, None, None),
             cache |-> m.cache]
       ELSE IF h.result.value = None
       THEN [response |-> Dashboard(selected, "none", {"Network data not found"},
                                    None, None),
             cache |-> m.cache]
       ELSE IF ~Truthy(m.result.value)
       THEN [response |-> Dashboard(selected, "none", {"Metrics not available"},
                                    None, h.result.value),
             cache |-> m.cache]
       ELSE IF ~(KeysRead \subseteq DOMAIN m.result.value)
       THEN [response |-> Dashboard(selected, "KeyError", {}, None, h.result.value),
             cache |-> m.cache]
       ELSE [response |-> Dashboard(selected, "none", {}, m.result.value, h.result.value),
             cache |-> m.cache]

\* lines 328-371: main up to the selection; selected is the option the user
\* has picked in the select box
main(selected, store) ==
    LET c == Cached(store, <<"load_countries", <<>>>>, load_countries)
    IN IF c.result.value = {}
       THEN [response |-> Dashboard(<<>>, "none", {"No network data found"}, None, None),
             cache |-> c.cache]
       ELSE IF selected = <<>>
       THEN [response |-> Dashboard(<<>>, "none", {"Please select a country"}, None, None),
             cache |-> c.cache]
       ELSE main_selected(selected, c.cache)

(* SpecView: requests to the two layers over folders that hold any          *)
(* combination of the three files of one country                            *)

\* graphs written by the pipeline, and the records written for them
SampleGraphs == {GraphOf(3, {<<1, 2>>, <<2, 3>>}), GraphOf(1, {<<1, 1>>})}

SampleRecords ==
    {SerializeMetrics(calculate_network_metrics(g, TRUE).report).metrics_json :
        g \in SampleGraphs}

\* the functions from a subset of S to T
Partial(S, T) == UNION {[D -> T] : D \in SUBSET S}

InitView ==
    /\ \E n \in Names :
          /\ graph_objects \in Partial({n}, SampleGraphs)
          /\ network_metrics \in Partial({n}, SampleRecords)
          /\ network_visualizations \in SUBSET {n}
    /\ cache = EmptyFn
    /\ response = NoResponse
    /\ files = <<>>
    /\ idx = 0
    /\ pc = "view"
    /\ edgelist = NoFrame
    /\ rowi = 0
    /\ G = EmptyGraph
    /\ metrics = NoMetrics
    /\ results = EmptyFn
    /\ ret = <<>>
    /\ error = "none"

\* what no request changes: the pipeline's state and the three folders
Folders_unchanged ==
    UNCHANGED <<files, idx, pc, edgelist, rowi, G, metrics, graph_objects,
                network_metrics, network_visualizations, results, ret, error>>

\* the country names of the requests: the names that have some file, and two
\* names that may have none
RequestNames ==
    DOMAIN graph_objects \cup DOMAIN network_metrics \cup network_visualizations
    \cup {<<"K">>, <<"_">>}

\* GET /network/<country_name>
ViewNetwork ==
    /\ pc = "view"
    /\ \E name \in RequestNames : response' = view_network(name)
    /\ UNCHANGED cache
    /\ Folders_unchanged

\* GET /api/metrics/<country_name>
ApiMetrics ==
    /\ pc = "view"
    /\ \E name \in RequestNames : response' = api_metrics(name)
    /\ UNCHANGED cache
    /\ Folders_unchanged

\* GET /visualizations/<country_name>_network.html
ServeVisualization ==
    /\ pc = "view"
    /\ \E name \in RequestNames : response' = serve_visualization(name)
    /\ UNCHANGED cache
    /\ Folders_unchanged

\* GET / and GET /api/countries (lines 42-46, 65-68): the listing
ListCountries ==
    /\ pc = "view"
    /\ response' = Answer("webapp", "api_countries", <<>>, 200, "none", {}, None,
                          [countries |-> get_available_countries])
    /\ UNCHANGED cache
    /\ Folders_unchanged

\* one run of the dashboard script; the selection is one of the options
DashboardRun ==
    /\ pc = "view"
    /\ LET options == Cached(cache, <<"load_countries", <<>>>>, load_countries).result.value
       IN \E selected \in (IF options = {} THEN {<<>>} ELSE options) :
             LET r == main(selected, cache)
             IN /\ response' = r.response
                /\ cache' = r.cache
    /\ Folders_unchanged

NextView ==
    \/ ViewNetwork
    \/ ApiMetrics
    \/ ServeVisualization
    \/ ListCountries
    \/ DashboardRun

SpecView == InitView /\ [][NextView]_vars

----------------------------------------------------------------------------
(* Properties of the batch run (Spec)                                       *)

\* the calls that have ended, by position in the listing
Ended == 1..Len(ret)

\* the rows the iterrows loop has applied to G
Applied == IF edgelist.columns THEN SubSeq(edgelist.rows, 1, rowi - 1) ELSE <<>>

\* a report is at hand: calculate_network_metrics has returned in this call
HasReport == pc \in {"json", "html"} /\ metrics.raised = "none"

\* C1: when eigenvector centrality does not converge for a file's graph, the
\* call for that file ends by raising PowerIterationFailedConvergence: no
\* metrics dictionary (not even a partial one) is returned to the caller, no
\* metrics JSON record is written for that country, and the country does not
\* appear in results.
C1_ConvergenceFailureRaises ==
    \A i \in Ended :
        (files[i].kind = "ok" /\ ~files[i].converges) =>
            /\ ret[i] = "raised"
            /\ error = ConvergenceError
            /\ metrics.raised = "unset"
            /\ i \notin DOMAIN network_metrics
            /\ i \notin DOMAIN results

\* C1 witness: a call whose graph was built and pickled has ended by the
\* convergence error
C1_Witness ==
    /\ pc = "raised"
    /\ error = ConvergenceError
    /\ ~files[idx].converges
    /\ idx \in DOMAIN graph_objects
    /\ Len(G.nodes) > 0

\* C2 (as claimed): every file that is missing, unreadable, malformed (no
\* Source/Target/Weight columns) or empty makes its call return None without
\* raising, so that no such file aborts the batch.
C2_BadFileReturnsNone ==
    \A i \in Ended : files[i].kind \in BadKinds => ret[i] = "None"

\* the unordered pair of a row, as the set of its end points
PairOf(row) == {row[1], row[2]}

SeenPairs == {PairOf(Applied[k]) : k \in 1..Len(Applied)}

\* C9: after any number of applied rows (repeated pairs, reversed pairs and
\* self-loops included) the degrees of G sum to twice num_edges, and num_edges
\* is the number of distinct unordered (Source, Target) pairs applied.
C9_DegreeSumTwiceEdges ==
    (edgelist.columns /\ rowi >= 1) =>
        /\ SumSeq([i \in 1..Len(G.nodes) |-> Degree(G, G.nodes[i])])
              = 2 * number_of_edges(G)
        /\ number_of_edges(G) = Cardinality(SeenPairs)

\* C9 witness: three rows were applied, among them a pair in both directions
\* and a self-loop
C9_Witness ==
    /\ pc = "build"
    /\ Len(Applied) = 3
    /\ \E j, k \in 1..3 : /\ j < k
                          /\ Applied[j][1] = Applied[k][2]
                          /\ Applied[j][2] = Applied[k][1]
                          /\ Applied[j][1] # Applied[j][2]
    /\ \E j \in 1..3 : Applied[j][1] = Applied[j][2]

\* the index of the last applied row of the unordered pair p
LastRowOf(p) ==
    CHOOSE k \in 1..Len(Applied) :
        /\ PairOf(Applied[k]) = p
        /\ \A j \in (k + 1)..Len(Applied) : PairOf(Applied[j]) # p

\* C10: after any number of applied rows, G has exactly the unordered pairs
\* applied as its edges, one edge each, and the weight of each edge, read from
\* either end, is the Weight of the last applied row of that pair in either
\* direction; the edges and weights keep nothing of the earlier rows.
C10_LastWeightWins ==
    (edgelist.columns /\ rowi >= 1) =>
        /\ \A u \in NodeSet(G) : \A v \in Nbrs(G, u) : {u, v} \in SeenPairs
        /\ NodeSet(G) = UNION SeenPairs
        /\ \A p \in SeenPairs : \A u \in p : \A v \in p :
              (p = {u, v}) =>
                  /\ v \in Nbrs(G, u)
                  /\ G.adj[u][v] = Applied[LastRowOf(p)][3]

\* C10 witness: a pair was applied twice, in opposite directions and with
\* different weights
C10_Witness ==
    /\ pc = "build"
    /\ \E j, k \in 1..Len(Applied) :
          /\ j < k
          /\ Applied[j][1] = Applied[k][2]
          /\ Applied[j][2] = Applied[k][1]
          /\ Applied[j][1] # Applied[j][2]
          /\ Applied[j][3] # Applied[k][3]
----------------------------------------------------------------------------
(* Graph notions stated apart from the library's algorithms, for the        *)
(* properties below                                                         *)

\* the nodes joined to the set S by some path
RECURSIVE Closure(_, _)
Closure(g, S) ==
    LET T == S \cup UNION {Nbrs(g, v) : v \in S}
    IN IF T = S THEN S ELSE Closure(g, T)

ComponentOf(g, u) == Closure(g, {u})

ComponentsOf(g) == {ComponentOf(g, u) : u \in NodeSet(g)}

\* the nodes within k hops of u
RECURSIVE Ball(_, _, _)
Ball(g, u, k) ==
    IF k = 0 THEN {u}
    ELSE LET B == Ball(g, u, k - 1) IN B \cup UNION {Nbrs(g, v) : v \in B}

\* the hop distance between two nodes of one component
HopDist(g, u, v) ==
    CHOOSE k \in 0..Len(g.nodes) :
        /\ v \in Ball(g, u, k)
        /\ k > 0 => v \notin Ball(g, u, k - 1)

\* the largest and the mean hop distance inside the component C
HopDiameter(g, C) == SetMax({HopDist(g, u, v) : u \in C, v \in C})

HopMean(g, C) ==
    LET n == Cardinality(C)
        From(u) == SetSum([v \in C |-> HopDist(g, u, v)], C)
    IN IF n = 1 THEN Zero
       ELSE Rat(SetSum([u \in C |-> From(u)], C), n * (n - 1))

\* the component of maximal size met first in the node order
FirstLargestComponent(g) ==
    LET m == SetMax({Cardinality(c) : c \in ComponentsOf(g)})
        i == SetMin({j \in 1..Len(g.nodes) :
                        Cardinality(ComponentOf(g, g.nodes[j])) = m})
    IN ComponentOf(g, g.nodes[i])

NoSelfLoops(g) == \A v \in NodeSet(g) : v \notin Nbrs(g, v)

Connected(g) == Cardinality(ComponentsOf(g)) = 1

----------------------------------------------------------------------------
(* Properties of the reports of loader-built graphs (Spec)                  *)

\* C4 (as claimed): for any graph the loader builds, density lies in [0, 1],
\* and density = 0 whenever num_nodes < 2.
C4_DensityInUnitInterval ==
    HasReport =>
        /\ RatLe(Zero, metrics.report.density)
        /\ RatLe(metrics.report.density, One)
        /\ metrics.report.num_nodes < 2 => metrics.report.density = Zero

\* C4 (amended): for any graph the loader builds, density >= 0, density = 0
\* whenever num_nodes < 2, and density <= 1 whenever the graph has no
\* self-loop (a self-loop counts as an edge, so density can exceed 1).
C4_DensityBounds ==
    HasReport =>
        /\ RatLe(Zero, metrics.report.density)
        /\ metrics.report.num_nodes < 2 => metrics.report.density = Zero
        /\ NoSelfLoops(G) => RatLe(metrics.report.density, One)

\* C4 witness: the report of a complete loader-built graph without self-loops
C4_Witness ==
    /\ HasReport
    /\ NoSelfLoops(G)
    /\ Len(G.nodes) = 3
    /\ metrics.report.density = One

\* C8 (as claimed): for every connected graph with num_edges > 0, self-loop
\* only graphs included, diameter >= avg_path_length >= 1.
C8_PathLengthOrder ==
    (HasReport /\ Connected(G) /\ metrics.report.num_edges > 0) =>
        /\ RatLe(metrics.report.avg_path_length, <<metrics.report.diameter, 1>>)
        /\ RatLe(One, metrics.report.avg_path_length)

\* C8 (amended): for every connected graph of at least two nodes,
\* diameter >= avg_path_length >= 1; for the connected graph of one node (whose
\* only possible edge is a self-loop) diameter = avg_path_length = 0.
C8_PathLengthOrderTwoNodes ==
    (HasReport /\ Connected(G)) =>
        IF metrics.report.num_nodes >= 2
        THEN /\ RatLe(metrics.report.avg_path_length, <<metrics.report.diameter, 1>>)
             /\ RatLe(One, metrics.report.avg_path_length)
        ELSE /\ metrics.report.diameter = 0
             /\ metrics.report.avg_path_length = Zero

\* C8 witness: the report of a connected graph whose average path length is
\* strictly between 1 and its diameter
C8_Witness ==
    /\ HasReport
    /\ Connected(G)
    /\ metrics.report.num_nodes >= 2
    /\ RatLt(One, metrics.report.avg_path_length)
    /\ RatLt(metrics.report.avg_path_length, <<metrics.report.diameter, 1>>)

----------------------------------------------------------------------------
(* Properties of calculate_network_metrics on any graph (SpecEngine)        *)

EngineReturned == pc = "returned" /\ metrics.raised = "none"

\* C3: for every non-empty graph the call never ends by the disconnected-graph
\* error; when the graph is connected the report has num_components = 1, the
\* diameter and average path length of the whole graph and no
\* largest_component_size; otherwise num_components is the number of
\* components, largest_component_size is the size of the largest component
\* (the first of maximal size in node order) and diameter and avg_path_length
\* are those of that component.
C3_ComponentRestriction ==
    (pc = "returned" /\ Len(G.nodes) > 0) =>
        /\ metrics.raised # DisconnectedError
        /\ metrics.raised = "none" =>
              LET r == metrics.report
                  C == FirstLargestComponent(G)
              IN /\ r.num_components = Cardinality(ComponentsOf(G))
                 /\ r.diameter = HopDiameter(G, C)
                 /\ r.avg_path_length = HopMean(G, C)
                 /\ IF Connected(G)
                    THEN /\ r.num_components = 1
                         /\ C = NodeSet(G)
                         /\ "largest_component_size" \notin DOMAIN r
                    ELSE /\ "largest_component_size" \in DOMAIN r
                         /\ r.largest_component_size = Cardinality(C)

\* C3 witness: a report for a disconnected graph with two components of
\* maximal size that differ in diameter
C3_Witness ==
    /\ EngineReturned
    /\ \E c, d \in ComponentsOf(G) :
          /\ c # d
          /\ Cardinality(c) = Cardinality(d)
          /\ Cardinality(c) = Cardinality(FirstLargestComponent(G))
          /\ HopDiameter(G, c) # HopDiameter(G, d)

BasicKeys == {"num_nodes", "num_edges", "density"}

NodeKeys ==
    {"top_degree_centrality", "top_betweenness_centrality", "top_closeness_centrality",
     "top_eigenvector_centrality", "top_brokers", "degree_distribution",
     "avg_clustering_coefficient", "transitivity", "num_triangles", "num_components",
     "diameter", "avg_path_length"}

\* C5: on a zero-node graph the call returns, without raising, a report whose
\* only fields are num_nodes = 0, num_edges = 0 and density = 0; every report
\* of a graph with nodes also has the four top_*_centrality lists, top_brokers,
\* degree_distribution, avg_clustering_coefficient, transitivity,
\* num_triangles, num_components, diameter and avg_path_length.
C5_FieldsByNodeCount ==
    pc = "returned" =>
        IF Len(G.nodes) = 0
        THEN /\ metrics.raised = "none"
             /\ DOMAIN metrics.report = BasicKeys
             /\ metrics.report.num_nodes = 0
             /\ metrics.report.num_edges = 0
             /\ metrics.report.density = Zero
        ELSE metrics.raised = "none" =>
                (BasicKeys \cup NodeKeys) \subseteq DOMAIN metrics.report

\* C5 witness: the call has returned for the zero-node graph
C5_Witness == pc = "returned" /\ Len(G.nodes) = 0 /\ metrics.raised = "none"

\* a ranking list against the scores it was cut from: length min(TopK, n),
\* no node twice, every pair a (node, score) of the scores, no pair before a
\* pair that beats it, and no pair left out that beats a listed one; a score
\* beats another when it is greater (descending) or smaller (ascending)
Beats(a, b, ascending) == IF ascending THEN RatLt(a[2], b[2]) ELSE RatLt(b[2], a[2])

RankingOK(list, scores, ascending) ==
    /\ Len(list) = (IF Len(scores) < 10 THEN Len(scores) ELSE 10)
    /\ \A i, j \in 1..Len(list) : i # j => list[i][1] # list[j][1]
    /\ Range(list) \subseteq Range(scores)
    /\ \A i, j \in 1..Len(list) : i < j => ~Beats(list[j], list[i], ascending)
    /\ \A x \in Range(scores) \ Range(list) :
          \A y \in Range(list) : ~Beats(x, y, ascending)

\* C6 (as claimed): for every non-empty graph each of the five ranking lists
\* has length min(10, num_nodes), holds each node at most once, holds the 10
\* extreme-scoring nodes, and is sorted descending by score (the four
\* centralities) or ascending by constraint (top_brokers).
C6_RankingLists ==
    (EngineReturned /\ Len(G.nodes) > 0) =>
        /\ RankingOK(metrics.report.top_degree_centrality, degree_centrality(G), FALSE)
        /\ RankingOK(metrics.report.top_betweenness_centrality,
                     betweenness_centrality(G), FALSE)
        /\ RankingOK(metrics.report.top_closeness_centrality,
                     closeness_centrality(G), FALSE)
        /\ RankingOK(metrics.report.top_eigenvector_centrality,
                     eigenvector_centrality(G), FALSE)
        /\ RankingOK(metrics.report.top_brokers, constraint(G), TRUE)

\* the number of nodes of degree below, and of degree at most, d
DegreeBelow(g, d) == Cardinality({v \in NodeSet(g) : Degree(g, v) < d})
DegreeAtMost(g, d) == Cardinality({v \in NodeSet(g) : Degree(g, v) <= d})

\* the element of rank r (counted from the smallest, from 1) of the degrees
DegreeOfRank(g, r) ==
    CHOOSE d \in {Degree(g, v) : v \in NodeSet(g)} :
        DegreeBelow(g, d) < r /\ r <= DegreeAtMost(g, d)

\* C7: for every non-empty graph degree_distribution.max and .min are the
\* largest and the smallest node degree, .mean is the degree sum over the
\* node count, and .median is the middle degree for an odd node count and the
\* lower of the two middle degrees (never their average) for an even one.
C7_DegreeDistribution ==
    (EngineReturned /\ Len(G.nodes) > 0) =>
        LET dd == metrics.report.degree_distribution
            n == Len(G.nodes)
            degs == {Degree(G, v) : v \in NodeSet(G)}
        IN /\ dd.max \in degs /\ \A d \in degs : d <= dd.max
           /\ dd.min \in degs /\ \A d \in degs : dd.min <= d
           /\ dd.mean = Rat(SetSum([v \in NodeSet(G) |-> Degree(G, v)], NodeSet(G)), n)
           /\ dd.median = DegreeOfRank(G, IF n % 2 = 1 THEN (n + 1) \div 2 ELSE n \div 2)

\* C7 witness: a report for an even number of nodes whose two middle degrees
\* differ
C7_Witness ==
    /\ EngineReturned
    /\ Len(G.nodes) > 0
    /\ Len(G.nodes) % 2 = 0
    /\ DegreeOfRank(G, Len(G.nodes) \div 2) # DegreeOfRank(G, (Len(G.nodes) \div 2) + 1)

\* the position of node v in the iteration order of a score mapping
PositionIn(scores, v) == CHOOSE i \in 1..Len(scores) : scores[i][1] = v

\* two (node, score) pairs tie: their scores compare equal (NaN equals nothing)
Tie(a, b) == ~IsNaN(a[2]) /\ ~IsNaN(b[2]) /\ ~RatLt(a[2], b[2]) /\ ~RatLt(b[2], a[2])

\* a ranking list keeps tied nodes in the iteration order of the scores, and
\* a tied node that was cut off comes later in that order than every listed
\* node it ties with
TieOrderOK(list, scores) ==
    /\ Len(list) <= Len(scores)
    /\ \A i, j \in 1..Len(list) :
          (i < j /\ Tie(list[i], list[j])) =>
              PositionIn(scores, list[i][1]) < PositionIn(scores, list[j][1])
    /\ \A k \in 1..Len(scores) :
          scores[k] \notin Range(list) =>
              \A i \in 1..Len(list) :
                  Tie(list[i], scores[k]) => PositionIn(scores, list[i][1]) < k

\* C14 (as claimed): in each of the five ranking lists of a non-empty graph,
\* nodes with equal scores appear in the graph's node insertion order, for the
\* descending centrality lists and for the ascending top_brokers alike, and
\* when a tie straddles the 10th position the nodes kept are the earliest in
\* that order.
C14_TiesInIterationOrder ==
    (EngineReturned /\ Len(G.nodes) > 0) =>
        /\ TieOrderOK(metrics.report.top_degree_centrality, degree_centrality(G))
        /\ TieOrderOK(metrics.report.top_betweenness_centrality, betweenness_centrality(G))
        /\ TieOrderOK(metrics.report.top_closeness_centrality, closeness_centrality(G))
        /\ TieOrderOK(metrics.report.top_eigenvector_centrality, eigenvector_centrality(G))
        /\ TieOrderOK(metrics.report.top_brokers, constraint(G))

----------------------------------------------------------------------------
(* Properties of the Report Writer and of the folders (Spec)                *)

\* the in-memory report that belongs to the JSON record of country c: the one
\* stored in results, or the one of the call that is still running
ReportOf(c) == IF c \in DOMAIN results THEN results[c][2] ELSE metrics.report

\* the countries whose JSON record can be held against an in-memory report
Recorded == {c \in DOMAIN network_metrics :
                c \in DOMAIN results \/ (c = Country /\ pc = "html")}

\* the graph the report of country c was computed from
GraphBehind(c) == IF c \in DOMAIN results THEN results[c][1] ELSE G

\* the report is the one calculate_network_metrics produced: the scores of
\* its ranking lists first, then every field
SameReport(report, produced) ==
    /\ DOMAIN report = DOMAIN produced
    /\ \A k \in DOMAIN report \cap RankingKeys :
          /\ Len(report[k]) = Len(produced[k])
          /\ \A i \in 1..Len(report[k]) : report[k][i][2] = produced[k][i][2]
    /\ report = produced

\* the record is the report with its ranking lists converted
Serialized(record, report) ==
    /\ DOMAIN record = DOMAIN report
    /\ \A k \in DOMAIN report \ RankingKeys : record[k] = report[k]
    /\ \A k \in DOMAIN report \cap RankingKeys :
          /\ Len(record[k]) = Len(report[k])
          /\ \A i \in 1..Len(report[k]) :
                /\ Len(record[k][i]) = 2
                /\ record[k][i][1] = str(report[k][i][1])
                /\ record[k][i][2] = float(report[k][i][2])

\* C11: writing the JSON record does not change the in-memory report, so the
\* metrics dictionary that create_network_visualization returns is the one
\* calculate_network_metrics produced for the graph; the record has the
\* fields of the report, every field other than the five ranking lists with
\* the report's value, and every ranking list present with the report's
\* length and order, each (node, score) pair turned into the two-element
\* sequence of the node name as text and the score as a float.
C11_SerializedVerbatim ==
    \A c \in Recorded :
        /\ SameReport(ReportOf(c), calculate_network_metrics(GraphBehind(c), TRUE).report)
        /\ Serialized(network_metrics[c], ReportOf(c))

\* C11 witness: a call has returned a report with a ranking of several nodes
\* whose JSON record has been written
C11_Witness ==
    \E c \in DOMAIN results :
        /\ c \in DOMAIN network_metrics
        /\ Len(results[c][2].top_brokers) >= 2
        /\ network_metrics[c].top_brokers[2][1] = str(results[c][2].top_brokers[2][1])
        /\ network_metrics[c].num_nodes = results[c][2].num_nodes

----------------------------------------------------------------------------
(* Properties of the presentation layers (SpecView)                         *)

\* the request answered last was for route r of layer l
Answered(l, r) == response.layer = l /\ response.route = r

\* C12: whatever files of a country are present or absent, and whatever
\* country is asked for, no request ends by an unhandled exception; a missing
\* file gives the defined "not found" outcome: the loaders return None, the
\* webapp answers 404 (view_network without the HTML, api_metrics without the
\* record, the HTML file itself) or renders the page without metrics, the
\* dashboard shows "Network data not found" or "Metrics not available"; and
\* the metrics shown are the stored record, never computed from the graph.
C12_MissingFileNotFound ==
    /\ response.layer # "none" => response.raised = "none" /\ response.status # 500
    /\ \A c \in RequestNames :
          /\ c \notin DOMAIN network_metrics => webapp_load_metrics(c) = Ok(None)
          /\ country_code(c) \notin DOMAIN graph_objects => load_network(c) = Ok(None)
          /\ country_code(c) \notin DOMAIN network_metrics => load_metrics(c) = Ok(None)
          /\ country_code(c) \notin network_visualizations =>
                load_network_html(c) = Ok(None)
    /\ Answered("webapp", "view_network") =>
          /\ response.country \notin network_visualizations => response.status = 404
          /\ (response.country \in network_visualizations
              /\ response.country \notin DOMAIN network_metrics) =>
                response.status = 200 /\ response.metrics = None
    /\ Answered("webapp", "api_metrics") =>
          (response.country \notin DOMAIN network_metrics => response.status = 404)
    /\ Answered("webapp", "serve_visualization") =>
          (response.country \notin network_visualizations => response.status = 404)
    /\ (Answered("dashboard", "main") /\ response.country # <<>>) =>
          LET code == country_code(response.country)
          IN /\ code \notin network_visualizations =>
                   /\ response.notes = {"Network data not found"}
                   /\ response.html = None /\ response.metrics = None
             /\ (code \in network_visualizations /\ code \notin DOMAIN network_metrics) =>
                   /\ response.notes = {"Metrics not available"}
                   /\ response.metrics = None
             /\ response.metrics # None => response.metrics = network_metrics[code]
    /\ (Answered("webapp", "view_network") \/ Answered("webapp", "api_metrics")) =>
          (response.metrics # None => response.metrics = network_metrics[response.country])

\* C12 witness: the dashboard has answered for a listed country whose HTML is
\* present and whose metrics record is missing
C12_Witness ==
    /\ Answered("dashboard", "main")
    /\ response.country # <<>>
    /\ country_code(response.country) \in network_visualizations
    /\ country_code(response.country) \notin DOMAIN network_metrics
    /\ response.notes = {"Metrics not available"}

----------------------------------------------------------------------------
(* Properties of the order of the artefacts (Spec)                          *)

\* the countries with a graph cache, a metrics record, a visualization
Cached_graphs == DOMAIN graph_objects
Recorded_metrics == DOMAIN network_metrics
Visualized == network_visualizations

\* the three folders are nested: HTML implies JSON implies pickle
ArtefactsNested ==
    /\ Visualized \subseteq Recorded_metrics
    /\ Recorded_metrics \subseteq Cached_graphs

\* one step writes at most one artefact, for the country being processed,
\* and only after the artefacts that come before it in the run
WrittenInOrder ==
    /\ \A c \in DOMAIN graph_objects' \ DOMAIN graph_objects :
          /\ c = Country
          /\ c \notin DOMAIN network_metrics' /\ c \notin network_visualizations'
    /\ \A c \in DOMAIN network_metrics' \ DOMAIN network_metrics :
          /\ c = Country
          /\ c \in DOMAIN graph_objects /\ metrics.raised = "none"
          /\ c \notin network_visualizations'
    /\ \A c \in network_visualizations' \ network_visualizations :
          /\ c = Country
          /\ c \in DOMAIN graph_objects /\ c \in DOMAIN network_metrics
    /\ error' # "none" =>
          /\ graph_objects' = graph_objects
          /\ network_metrics' = network_metrics
          /\ network_visualizations' = network_visualizations

\* C15: starting from empty output folders, a run writes a country's graph
\* cache, then its metrics record, then its visualization, each only when
\* the steps before it succeeded and nothing once an exception is raised;
\* so in every reachable state, failures included, a visualization implies
\* the metrics record and a metrics record implies the graph cache.
C15_ArtefactsInOrder == []ArtefactsNested /\ [][WrittenInOrder]_vars

\* C15 witness: the batch has failed on a later country after its graph cache
\* was written and before its metrics record, while an earlier country has
\* all three artefacts
C15_Witness ==
    /\ pc = "raised"
    /\ Country \in DOMAIN graph_objects
    /\ Country \notin DOMAIN network_metrics
    /\ \E c \in network_visualizations : c < Country

----------------------------------------------------------------------------
(* Properties of the dashboard's country names (SpecView)                   *)

\* C16 (as claimed): for every cache file <name>_graph.pkl, whatever the
\* name (spaces, underscores and "_graph" included), the display name listed
\* by load_countries leads the three loaders back to the files of <name>:
\* the code they build is <name>, and each returns that country's file when
\* it is present.
C16_NameRoundTrip ==
    \A n \in DOMAIN graph_objects :
        /\ display_name(n) \in load_countries.value
        /\ country_code(display_name(n)) = n
        /\ load_network(display_name(n)) = open(graph_objects, n)
        /\ n \in DOMAIN network_metrics =>
              load_metrics(display_name(n)) = open(network_metrics, n)
        /\ n \in network_visualizations =>
              load_network_html(display_name(n)) = open(Html, n)

=============================================================================
